---- MODULE Spec2Model ----
(***************************************************************************)
(* Model of the lexical primitives of rust-ledger-parser (src/parser.rs)   *)
(* and of the Display implementations of its data model (src/model.rs).    *)
(*                                                                         *)
(* Text is a sequence of characters; a character is its Unicode scalar     *)
(* value (a Rust `char`), so the predicates of parser.rs compare code      *)
(* points exactly as the code does.  Every parser is an operator from the  *)
(* input text to a nom IResult:                                            *)
(*     [ok |-> TRUE,  rest |-> <remaining input>, val |-> <value>]         *)
(*     [ok |-> FALSE, kind |-> <ErrorKind>,       at  |-> <error span>]    *)
(* The input type is CompleteStr, so no parser returns Incomplete.         *)
(***************************************************************************)
EXTENDS Integers, Sequences, FiniteSets, TLC

VARIABLES call, ret, pc

vars == <<call, ret, pc>>

(***************************************************************************)
(* Characters                                                              *)
(***************************************************************************)
\* Code points of the characters the inputs are written with.
\* "euro" stands for U+20AC, a character above the ASCII range.
Ch(c) ==
  CASE c = "0" -> 48 [] c = "1" -> 49 [] c = "2" -> 50 [] c = "3" -> 51
    [] c = "4" -> 52 [] c = "5" -> 53 [] c = "6" -> 54 [] c = "7" -> 55
    [] c = "8" -> 56 [] c = "9" -> 57
    [] c = "-" -> 45 [] c = "/" -> 47 [] c = "." -> 46 [] c = ":" -> 58
    [] c = "$" -> 36 [] c = "\"" -> 34
    [] c = " " -> 32 [] c = "\t" -> 9 [] c = "\r" -> 13 [] c = "\n" -> 10
    [] c = "A" -> 65 [] c = "B" -> 66 [] c = "C" -> 67 [] c = "D" -> 68
    [] c = "P" -> 80 [] c = "S" -> 83 [] c = "U" -> 85
    [] c = "a" -> 97 [] c = "x" -> 120
    [] c = ";" -> 59
    [] c = "euro" -> 8364

\* The text written with the given characters.
T(s) == [i \in 1..Len(s) |-> Ch(s[i])]

\* text[k..] and text[..k], counted in characters
Drop(text, k) == SubSeq(text, k + 1, Len(text))
Take(text, k) == SubSeq(text, 1, k)

\* n written with two and with four decimal digits
Digits2(n) == <<48 + ((n \div 10) % 10), 48 + (n % 10)>>
Digits4(n) == Digits2(n \div 100) \o Digits2(n % 100)

\* c >= '0' && c <= '9'
is_digit(c) == c >= 48 /\ c <= 57

\* c >= 'a' && c <= 'z' || c >= 'A' && c <= 'Z' || c == '$' || c > 0x7F
is_commodity_first_char(c) ==
  (c >= 97 /\ c <= 122) \/ (c >= 65 /\ c <= 90) \/ c = 36 \/ c > 127

\* A commodity character class that also admits digits
is_commodity_char_or_digit(c) ==
  (c >= 97 /\ c <= 122) \/ (c >= 65 /\ c <= 90) \/ c = 36 \/ c > 127
    \/ (c >= 48 /\ c <= 57)

is_commodity_char(c) ==
  (c >= 97 /\ c <= 122) \/ (c >= 65 /\ c <= 90) \/ c = 36 \/ c > 127

\* c == ' ' || c == '\t' || c == '\r' || c == '\n'
is_white_char(c) == c = 32 \/ c = 9 \/ c = 13 \/ c = 10

\* The character predicates the combinators are used with, by name.
\* "not_quote" is the predicate of is_not!("\""), "is_dec_digit" that of
\* nom's digit, "is_separator" the " \t\r\n" of nom's sp.
char_pred(name, c) ==
  CASE name = "is_digit" -> is_digit(c)
    [] name = "is_commodity_first_char" -> is_commodity_first_char(c)
    [] name = "is_commodity_char" -> is_commodity_char(c)
    [] name = "is_dec_digit" -> c >= 48 /\ c <= 57
    [] name = "not_quote" -> c # 34
    [] name = "is_separator" -> c = 32 \/ c = 9 \/ c = 13 \/ c = 10

(***************************************************************************)
(* nom results and combinators                                             *)
(***************************************************************************)
Ok(rest, val) == [ok |-> TRUE, rest |-> rest, val |-> val]
Error(kind, at) == [ok |-> FALSE, kind |-> kind, at |-> at]

\* input.position(|c| !pred(c)): the number of characters before the first
\* one that does not satisfy pred; Len(text) + 1 stands for None.
position_not(text, pred) ==
  CHOOSE i \in 0..(Len(text) + 1) :
    /\ \A j \in 1..i : j <= Len(text) => char_pred(pred, text[j])
    /\ i < Len(text) => ~char_pred(pred, text[i + 1])
    /\ i # Len(text)

\* take_while_m_n!(m, n, pred): the longest prefix of at most n characters
\* satisfying pred, an error when it has fewer than m characters.
take_while_m_n(m, n, pred, text) ==
  LET split(idx, len) ==
        IF idx <= len
          THEN IF idx >= m
                 THEN IF idx <= n THEN Ok(Drop(text, idx), Take(text, idx))
                                  ELSE Ok(Drop(text, n), Take(text, n))
                 ELSE Error("TakeWhileMN", text)
          ELSE IF len >= n THEN Ok(Drop(text, n), Take(text, n))
               ELSE IF len >= m /\ len <= n THEN Ok(<<>>, text)
               ELSE Error("TakeWhileMN", text)
  IN split(position_not(text, pred), Len(text))

\* take_while!(pred): the longest prefix satisfying pred, possibly empty
take_while(pred, text) ==
  LET split(idx, len) ==
        IF idx <= len THEN Ok(Drop(text, idx), Take(text, idx))
        ELSE Ok(<<>>, text)
  IN split(position_not(text, pred), Len(text))

\* split_at_position1 on the first character not satisfying pred: the
\* longest prefix satisfying pred, an error of the given kind when empty.
\* nom's digit is split_at_position1 with is_dec_digit and ErrorKind::Digit,
\* is_not!(arr) with the characters outside arr and ErrorKind::IsNot.
split_at_position1(pred, kind, text) ==
  LET split(idx, len) ==
        IF idx <= len
          THEN IF idx = 0 THEN Error(kind, text)
               ELSE Ok(Drop(text, idx), Take(text, idx))
          ELSE IF len = 0 THEN Error(kind, text) ELSE Ok(<<>>, text)
  IN split(position_not(text, pred), Len(text))

digit(text) == split_at_position1("is_dec_digit", "Digit", text)

\* A separator that skips nothing
sp_skips_nothing(text) == text

\* nom's sp, the separator of ws!: skips " \t\r\n", never fails
sp(text) == take_while("is_separator", text).rest

\* tag!(t)
tag(t, text) ==
  IF Len(text) >= Len(t) /\ Take(text, Len(t)) = t
    THEN Ok(Drop(text, Len(t)), t)
    ELSE Error("Tag", text)

\* i32::from_str on a string of decimal digits
RECURSIVE i32_from_str(_)
i32_from_str(s) ==
  IF s = <<>> THEN 0
  ELSE 10 * i32_from_str(Take(s, Len(s) - 1)) + (s[Len(s)] - 48)

(***************************************************************************)
(* parse_date                                                              *)
(***************************************************************************)
\* A number of one to n digits
numberN_at_most(n, text) ==
  LET map_res(r) == IF r.ok THEN Ok(r.rest, i32_from_str(r.val)) ELSE r
  IN map_res(take_while_m_n(1, n, "is_digit", text))

\* map_res!(take_while_m_n!(n, n, is_digit), i32::from_str)
numberN(n, text) ==
  LET map_res(r) == IF r.ok THEN Ok(r.rest, i32_from_str(r.val)) ELSE r
  IN map_res(take_while_m_n(n, n, "is_digit", text))

\* A separator grammar that knows '-' only
date_separator_dash_only(text) == tag(<<45>>, text)

\* alt!(tag!("-") | tag!("/") | tag!("."))
date_separator(text) ==
  LET alt3(c) == IF c.ok THEN c ELSE Error("Alt", text)
      alt2(b) == IF b.ok THEN b ELSE alt3(tag(<<46>>, text))
      alt1(a) == IF a.ok THEN a ELSE alt2(tag(<<47>>, text))
  IN alt1(tag(<<45>>, text))

\* do_parse!(year >> separator >> month >> separator >> day >> (year, month, day))
parse_date_internal(text) ==
  LET do_5(year, month, day) ==
        IF ~day.ok THEN day
        ELSE Ok(day.rest, <<year.val, month.val, day.val>>)
      do_4(year, month, s2) ==
        IF ~s2.ok THEN s2 ELSE do_5(year, month, numberN(2, s2.rest))
      do_3(year, month) ==
        IF ~month.ok THEN month
        ELSE do_4(year, month, date_separator(month.rest))
      do_2(year, s1) ==
        IF ~s1.ok THEN s1 ELSE do_3(year, numberN(2, s1.rest))
      do_1(year) ==
        IF ~year.ok THEN year ELSE do_2(year, date_separator(year.rest))
  IN do_1(numberN(4, text))

\* chrono: the proleptic Gregorian calendar
is_leap_year(y) == y % 4 = 0 /\ (y % 100 # 0 \/ y % 400 = 0)

days_in_month(y, m) ==
  IF m = 2 THEN (IF is_leap_year(y) THEN 29 ELSE 28)
  ELSE IF m \in {4, 6, 9, 11} THEN 30 ELSE 31

NaiveDate(y, m, d) == [year |-> y, month |-> m, day |-> d]

\* value as u32 of an i32: the value modulo 2^32, as its two 16-bit halves
as_u32(v) == [hi |-> (v \div 65536) % 65536, lo |-> v % 65536]

\* NaiveDate::from_ymd_opt(year: i32, month: u32, day: u32); None is <<>>,
\* Some(v) is <<v>>
from_ymd_opt(y, m, d) ==
  IF /\ m.hi = 0 /\ m.lo >= 1 /\ m.lo <= 12
     /\ d.hi = 0 /\ d.lo >= 1 /\ d.lo <= days_in_month(y, m.lo)
    THEN <<NaiveDate(y, m.lo, d.lo)>>
    ELSE <<>>

\* The width of a character in the UTF-8 encoding of a str
len_utf8(c) ==
  IF c < 128 THEN 1 ELSE IF c < 2048 THEN 2 ELSE IF c < 65536 THEN 3 ELSE 4

\* The number of bytes of a text
RECURSIVE str_len(_)
str_len(text) ==
  IF text = <<>> THEN 0 ELSE len_utf8(Head(text)) + str_len(Tail(text))

\* &text[0..end]: the characters of the first end bytes, as <<slice>>; <<>>
\* when end is past the last byte or inside a character, where the
\* indexing panics
str_index_to(text, end) ==
  LET fits == {k \in 0..Len(text) : str_len(Take(text, k)) = end}
  IN IF fits = {} THEN <<>> ELSE <<Take(text, CHOOSE k \in fits : TRUE)>>


\* The thread panics: the call does not return
panic == [ok |-> FALSE, kind |-> "panic", at |-> <<>>]
is_panic(r) == ~r.ok /\ r.kind = "panic"

\* parse_date reporting the whole input as the span of NonExistingDate
parse_date_span_whole_input(text) ==
  LET validate(res, parsed_opt) ==
        IF parsed_opt # <<>>
          THEN Ok(res.rest, parsed_opt[1])
          ELSE Error("Custom(NonExistingDate)", text)
      checked(res) ==
        IF ~res.ok THEN res
        ELSE validate(res, from_ymd_opt(res.val[1], as_u32(res.val[2]),
                                        as_u32(res.val[3])))
  IN checked(parse_date_internal(text))

parse_date(text) ==
  LET error_position(slice) ==
        IF slice = <<>> THEN panic
        ELSE Error("Custom(NonExistingDate)", slice[1])
      validate(res, parsed_opt) ==
        IF parsed_opt # <<>>
          THEN Ok(res.rest, parsed_opt[1])
          ELSE error_position(str_index_to(text, 10))
      checked(res) ==
        IF ~res.ok THEN res
        ELSE validate(res, from_ymd_opt(res.val[1], as_u32(res.val[2]),
                                        as_u32(res.val[3])))
  IN checked(parse_date_internal(text))

(***************************************************************************)
(* rust_decimal::Decimal: a signed unscaled integer and a scale             *)
(***************************************************************************)
\* Decimal::new(num, scale) is num / 10^scale
Decimal(num, scale) == [num |-> num, scale |-> scale]

\* The digits of a text accumulated into the coefficient, most significant
\* first; the '.' and the sign are skipped.
RECURSIVE Decimal_coeff(_, _)
Decimal_coeff(s, coeff) ==
  IF s = <<>> THEN coeff
  ELSE Decimal_coeff(Tail(s), IF is_digit(Head(s))
                                THEN coeff * 10 + (Head(s) - 48)
                                ELSE coeff)

\* Decimal::from_str on "-"? digits ("." digits)?: the scale is the number
\* of digits after the '.', the sign that of a leading '-'.
Decimal_from_str(s) ==
  LET dots == {i \in 1..Len(s) : s[i] = 46}
      scaled(coeff) ==
        Decimal(IF s # <<>> /\ s[1] = 45 THEN 0 - coeff ELSE coeff,
                IF dots = {} THEN 0 ELSE Len(s) - (CHOOSE i \in dots : TRUE))
  IN scaled(Decimal_coeff(s, 0))

\* a * b: the coefficients multiply, the scales add
Decimal_mul(a, b) == Decimal(a.num * b.num, a.scale + b.scale)

(***************************************************************************)
(* parse_quantity                                                          *)
(***************************************************************************)
\* parse_quantity whose fraction may have no digits: "1." is taken whole
parse_quantity_bare_dot(text) ==
  LET map_res(r) ==
        IF r.ok THEN Ok(r.rest, Decimal_from_str(r.val)) ELSE r
      recognize(r) ==
        IF r.ok THEN Ok(r.rest, Take(text, Len(text) - Len(r.rest))) ELSE r
      opt_fraction(int, dot) ==
        IF dot.ok THEN Ok(take_while("is_dec_digit", dot.rest).rest, <<>>)
        ELSE Ok(int.rest, <<>>)
      tuple_2(int) ==
        IF int.ok THEN opt_fraction(int, tag(<<46>>, int.rest)) ELSE int
      tuple_1(neg) == tuple_2(digit(IF neg.ok THEN neg.rest ELSE text))
  IN map_res(recognize(tuple_1(tag(<<45>>, text))))

\* map_res!(recognize!(tuple!(opt!(tag!("-")), digit,
\*                            opt!(tuple!(tag!("."), digit)))),
\*          Decimal::from_str)
parse_quantity(text) ==
  LET map_res(r) ==
        IF r.ok THEN Ok(r.rest, Decimal_from_str(r.val)) ELSE r
      recognize(r) ==
        IF r.ok THEN Ok(r.rest, Take(text, Len(text) - Len(r.rest))) ELSE r
      opt_fraction(int, frac) ==
        IF frac.ok THEN Ok(frac.rest, <<>>) ELSE Ok(int.rest, <<>>)
      fraction(dot) == IF dot.ok THEN digit(dot.rest) ELSE dot
      tuple_2(int) ==
        IF int.ok THEN opt_fraction(int, fraction(tag(<<46>>, int.rest)))
        ELSE int
      tuple_1(neg) == tuple_2(digit(IF neg.ok THEN neg.rest ELSE text))
  IN map_res(recognize(tuple_1(tag(<<45>>, text))))

(***************************************************************************)
(* parse_commodity                                                         *)
(***************************************************************************)
\* delimited!(char!('\"'), is_not!("\""), char!('\"'))
string_between_quotes(text) ==
  LET close(body, q) ==
        IF q.ok THEN Ok(q.rest, body.val) ELSE Error("Char", body.rest)
      inside(body) ==
        IF body.ok THEN close(body, tag(<<34>>, body.rest)) ELSE body
      open(q) ==
        IF q.ok THEN inside(split_at_position1("not_quote", "IsNot", q.rest))
        ELSE Error("Char", text)
  IN open(tag(<<34>>, text))

\* recognize!(tuple!(take_while_m_n!(1, 1, is_commodity_first_char),
\*                   take_while!(is_commodity_char)))
commodity_without_quotes(text) ==
  LET recognize(r) ==
        Ok(r.rest, Take(text, Len(text) - Len(r.rest)))
      tuple_1(first) ==
        IF first.ok
          THEN recognize(take_while("is_commodity_char", first.rest))
          ELSE first
  IN tuple_1(take_while_m_n(1, 1, "is_commodity_first_char", text))

\* alt!(string_between_quotes | commodity_without_quotes)
parse_commodity(text) ==
  LET alt_2(b) == IF b.ok THEN b ELSE Error("Alt", text)
      alt_1(a) == IF a.ok THEN a ELSE alt_2(commodity_without_quotes(text))
  IN alt_1(string_between_quotes(text))

(***************************************************************************)
(* parse_amount                                                            *)
(***************************************************************************)
Commodity(name, position) == [name |-> name, position |-> position]
Amount(quantity, commodity) == [quantity |-> quantity, commodity |-> commodity]

\* The first alternative ignoring the minus sign before the commodity
amount_left_sign_ignored(text) ==
  LET build(commodity, quantity) ==
        IF quantity.ok
          THEN Ok(quantity.rest,
                  Amount(quantity.val, Commodity(commodity.val, "Left")))
          ELSE quantity
      do_2(commodity) ==
        IF commodity.ok
          THEN build(commodity, parse_quantity(sp(commodity.rest)))
          ELSE commodity
      do_1(i, neg) ==
        do_2(parse_commodity(sp(IF neg.ok THEN neg.rest ELSE i)))
      start(i) == do_1(i, tag(<<45>>, i))
  IN start(sp(text))

\* The first alternative of parse_amount under ws!: the separator is
\* skipped before each of neg_opt, commodity and quantity.
amount_left(text) ==
  LET build(neg, commodity, quantity) ==
        IF quantity.ok
          THEN Ok(quantity.rest,
                  Amount(IF neg.ok
                           THEN Decimal_mul(quantity.val, Decimal(0 - 1, 0))
                           ELSE quantity.val,
                         Commodity(commodity.val, "Left")))
          ELSE quantity
      do_2(neg, commodity) ==
        IF commodity.ok
          THEN build(neg, commodity, parse_quantity(sp(commodity.rest)))
          ELSE commodity
      do_1(i, neg) ==
        do_2(neg, parse_commodity(sp(IF neg.ok THEN neg.rest ELSE i)))
      start(i) == do_1(i, tag(<<45>>, i))
  IN start(sp(text))

\* The second alternative: quantity, then commodity
amount_right(text) ==
  LET build(quantity, commodity) ==
        IF commodity.ok
          THEN Ok(commodity.rest,
                  Amount(quantity.val, Commodity(commodity.val, "Right")))
          ELSE commodity
      do_1(quantity) ==
        IF quantity.ok
          THEN build(quantity, parse_commodity(sp(quantity.rest)))
          ELSE quantity
  IN do_1(parse_quantity(sp(text)))

\* parse_amount whose second alternative resumes where the first one
\* stopped after its minus sign, instead of at the start of the input
parse_amount_no_backtrack(text) ==
  LET ws(r) == IF r.ok THEN Ok(sp(r.rest), r.val) ELSE r
      resume(neg) == IF neg.ok THEN neg.rest ELSE text
      alt_2(b) == IF b.ok THEN b ELSE Error("Alt", text)
      alt_1(a) ==
        IF a.ok THEN a
        ELSE alt_2(amount_right(resume(tag(<<45>>, sp(text)))))
  IN ws(alt_1(amount_left(text)))

\* parse_amount under sep! alone: the separator is skipped before each
\* token and not after the match
parse_amount_sep_only(text) ==
  LET alt_2(b) == IF b.ok THEN b ELSE Error("Alt", text)
      alt_1(a) == IF a.ok THEN a ELSE alt_2(amount_right(text))
  IN alt_1(amount_left(text))

\* ws!(alt!(do_parse!(..Left..) | do_parse!(..Right..))): both alternatives
\* start from the same input, the separator is skipped after the match.
parse_amount(text) ==
  LET ws(r) == IF r.ok THEN Ok(sp(r.rest), r.val) ELSE r
      alt_2(b) == IF b.ok THEN b ELSE Error("Alt", text)
      alt_1(a) == IF a.ok THEN a ELSE alt_2(amount_right(text))
  IN ws(alt_1(amount_left(text)))

(***************************************************************************)
(* Rendering (model.rs: every Display writes to_string_pretty with the     *)
(* default SerializerSettings)                                             *)
(***************************************************************************)
\* SerializerSettings::default(): two-space indentation, "\n" line ends
SerializerSettings_default == [indent |-> <<32, 32>>, eol |-> <<10>>]

\* The decimal digits of a natural number, without leading zeros
RECURSIVE nat_digits(_)
nat_digits(n) ==
  IF n < 10 THEN <<48 + n>> ELSE nat_digits(n \div 10) \o <<48 + (n % 10)>>

\* k zeros
zeros(k) == [i \in 1..k |-> 48]

\* Display of Decimal: the coefficient with the point placed scale digits
\* from the right, zeros added so that a digit stands before the point.
Decimal_fmt(d) ==
  LET place(rep) ==
        IF d.scale = 0 THEN rep
        ELSE Take(rep, Len(rep) - d.scale) \o <<46>>
               \o Drop(rep, Len(rep) - d.scale)
      pad(rep) ==
        place(IF Len(rep) > d.scale THEN rep
              ELSE zeros(d.scale + 1 - Len(rep)) \o rep)
  IN (IF d.num < 0 THEN <<45>> ELSE <<>>)
       \o pad(nat_digits(IF d.num < 0 THEN 0 - d.num ELSE d.num))

\* Amount: Left is <commodity><quantity>, Right is <quantity> <commodity>
Amount_to_string_pretty(a, settings) ==
  IF a.commodity.position = "Left"
    THEN a.commodity.name \o Decimal_fmt(a.quantity)
    ELSE Decimal_fmt(a.quantity) \o <<32>> \o a.commodity.name

\* Display for Amount, written with a line end after the text
Amount_fmt_writeln(a) ==
  Amount_to_string_pretty(a, SerializerSettings_default) \o <<10>>

\* impl fmt::Display for Amount
Amount_fmt(a) == Amount_to_string_pretty(a, SerializerSettings_default)

Balance_Zero == [tag |-> "Zero"]
Balance_Amount(a) == [tag |-> "Amount", amount |-> a]

\* Balance: Zero is the literal 0, Amount the rendered amount
Balance_to_string_pretty(b, settings) ==
  IF b.tag = "Zero" THEN <<48>>
  ELSE Amount_to_string_pretty(b.amount, settings)

\* impl fmt::Display for Balance
Balance_fmt(b) == Balance_to_string_pretty(b, SerializerSettings_default)

\* Option: None is <<>>, Some(v) is <<v>>
Some(v) == <<v>>

\* The segments of a text between its line breaks ('\n')
RECURSIVE split_lines(_, _)
split_lines(text, line) ==
  IF text = <<>> THEN <<line>>
  ELSE IF Head(text) = 10 THEN <<line>> \o split_lines(Tail(text), <<>>)
  ELSE split_lines(Tail(text), Append(line, Head(text)))

\* Display of NaiveDate (YYYY-MM-DD) and NaiveDateTime (YYYY-MM-DD HH:MM:SS)
NaiveDate_fmt(d) ==
  Digits4(d.year) \o <<45>> \o Digits2(d.month) \o <<45>> \o Digits2(d.day)

NaiveDateTime(date, hour, min, sec) ==
  [date |-> date, hour |-> hour, min |-> min, sec |-> sec]

NaiveDateTime_fmt(dt) ==
  NaiveDate_fmt(dt.date) \o <<32>> \o Digits2(dt.hour) \o <<58>>
    \o Digits2(dt.min) \o <<58>> \o Digits2(dt.sec)

\* Status: Pending is "!", Cleared is "*"
TransactionStatus_to_string_pretty(status, settings) ==
  IF status = "Pending" THEN <<33>> ELSE <<42>>

Price_Unit(a) == [tag |-> "Unit", amount |-> a]
Price_Total(a) == [tag |-> "Total", amount |-> a]

PostingAmount(amount, lot_price, price) ==
  [amount |-> amount, lot_price |-> lot_price, price |-> price]

\* The amount, then the lot price in {} (unit) or {{}} (total), then the
\* posted price after @ (unit) or @@ (total)
PostingAmount_to_string_pretty(pa, settings) ==
  Amount_to_string_pretty(pa.amount, settings)
    \o (IF pa.lot_price = <<>> THEN <<>>
        ELSE IF pa.lot_price[1].tag = "Unit"
          THEN <<32, 123>>
                 \o Amount_to_string_pretty(pa.lot_price[1].amount, settings)
                 \o <<125>>
          ELSE <<32, 123, 123>>
                 \o Amount_to_string_pretty(pa.lot_price[1].amount, settings)
                 \o <<125, 125>>)
    \o (IF pa.price = <<>> THEN <<>>
        ELSE IF pa.price[1].tag = "Unit"
          THEN <<32, 64, 32>>
                 \o Amount_to_string_pretty(pa.price[1].amount, settings)
          ELSE <<32, 64, 64, 32>>
                 \o Amount_to_string_pretty(pa.price[1].amount, settings))

Posting(account, reality, amount, balance, status, comment) ==
  [account |-> account, reality |-> reality, amount |-> amount,
   balance |-> balance, status |-> status, comment |-> comment]

\* Posting: status marker and a space, the account in the brackets of its
\* reality, the two-space separator, the amount, " = " and the balance,
\* then the comment on a new indented line "; <comment>"
Posting_to_string_pretty(p, settings) ==
  (IF p.status = <<>> THEN <<>>
   ELSE TransactionStatus_to_string_pretty(p.status[1], settings) \o <<32>>)
    \o (IF p.reality = "Real" THEN p.account
        ELSE IF p.reality = "BalancedVirtual"
          THEN <<91>> \o p.account \o <<93>>
          ELSE <<40>> \o p.account \o <<41>>)
    \o <<32, 32>>
    \o (IF p.amount = <<>> THEN <<>>
        ELSE PostingAmount_to_string_pretty(p.amount[1], settings))
    \o (IF p.balance = <<>> THEN <<>>
        ELSE <<32, 61, 32>>
               \o Balance_to_string_pretty(p.balance[1], settings))
    \o (IF p.comment = <<>> THEN <<>>
        ELSE settings.eol \o settings.indent \o <<59, 32>> \o p.comment[1])

\* Display for Posting, written with a line end after the text
Posting_fmt_writeln(p) ==
  Posting_to_string_pretty(p, SerializerSettings_default) \o <<10>>

\* impl fmt::Display for Posting
Posting_fmt(p) == Posting_to_string_pretty(p, SerializerSettings_default)

Transaction(comment, date, effective_date, status, code, description, postings) ==
  [comment |-> comment, date |-> date, effective_date |-> effective_date,
   status |-> status, code |-> code, description |-> description,
   postings |-> postings]

\* Each line on a new line, after the indentation and "; "
RECURSIVE comment_lines(_, _)
comment_lines(lines, settings) ==
  IF lines = <<>> THEN <<>>
  ELSE settings.eol \o settings.indent \o <<59, 32>> \o Head(lines)
         \o comment_lines(Tail(lines), settings)

\* Each posting on a new indented line
RECURSIVE posting_lines(_, _)
posting_lines(postings, settings) ==
  IF postings = <<>> THEN <<>>
  ELSE settings.eol \o settings.indent
         \o Posting_to_string_pretty(Head(postings), settings)
         \o posting_lines(Tail(postings), settings)

\* Transaction: <date>[=<effective_date>][ <status>][ (<code>)] <description>,
\* the comment lines, then the postings; no line end after the last line
Transaction_to_string_pretty(t, settings) ==
  NaiveDate_fmt(t.date)
    \o (IF t.effective_date = <<>> THEN <<>>
        ELSE <<61>> \o NaiveDate_fmt(t.effective_date[1]))
    \o (IF t.status = <<>> THEN <<>>
        ELSE <<32>>
               \o TransactionStatus_to_string_pretty(t.status[1], settings))
    \o (IF t.code = <<>> THEN <<>> ELSE <<32, 40>> \o t.code[1] \o <<41>>)
    \o <<32>> \o t.description
    \o (IF t.comment = <<>> THEN <<>>
        ELSE comment_lines(split_lines(t.comment[1], <<>>), settings))
    \o posting_lines(t.postings, settings)

\* Display for Transaction, written with a line end after the text
Transaction_fmt_writeln(t) ==
  Transaction_to_string_pretty(t, SerializerSettings_default) \o <<10>>

\* impl fmt::Display for Transaction
Transaction_fmt(t) ==
  Transaction_to_string_pretty(t, SerializerSettings_default)

CommodityPrice(datetime, commodity_name, amount) ==
  [datetime |-> datetime, commodity_name |-> commodity_name,
   amount |-> amount]

\* Commodity price: P <datetime> <commodity name> <amount>
CommodityPrice_to_string_pretty(cp, settings) ==
  <<80, 32>> \o NaiveDateTime_fmt(cp.datetime) \o <<32>> \o cp.commodity_name
    \o <<32>> \o Amount_to_string_pretty(cp.amount, settings)

\* impl fmt::Display for CommodityPrice
CommodityPrice_fmt(cp) ==
  CommodityPrice_to_string_pretty(cp, SerializerSettings_default)

LedgerItem_EmptyLine == [tag |-> "EmptyLine"]
LedgerItem_Transaction(t) == [tag |-> "Transaction", transaction |-> t]
LedgerItem_CommodityPrice(cp) ==
  [tag |-> "CommodityPrice", commodity_price |-> cp]

\* An item without its line end; EmptyLine is the empty text
LedgerItem_to_string_pretty(item, settings) ==
  CASE item.tag = "EmptyLine" -> <<>>
    [] item.tag = "Transaction" ->
         Transaction_to_string_pretty(item.transaction, settings)
    [] item.tag = "CommodityPrice" ->
         CommodityPrice_to_string_pretty(item.commodity_price, settings)

Ledger(items) == [items |-> items]

\* The items in order, a line end written after each of them
RECURSIVE ledger_items(_, _, _)
ledger_items(items, settings, written) ==
  IF items = <<>> THEN written
  ELSE ledger_items(Tail(items), settings,
                    written \o LedgerItem_to_string_pretty(Head(items),
                                                           settings)
                            \o settings.eol)

Ledger_to_string_pretty(l, settings) == ledger_items(l.items, settings, <<>>)

\* Display for Ledger, written with a line end after the text
Ledger_fmt_writeln(l) ==
  Ledger_to_string_pretty(l, SerializerSettings_default) \o <<10>>

\* impl fmt::Display for Ledger
Ledger_fmt(l) == Ledger_to_string_pretty(l, SerializerSettings_default)

(***************************************************************************)
(* Inputs of parse_date                                                    *)
(***************************************************************************)
MaxMonth == 13
MaxDay == 32

DateYears == {0, 1900, 2016, 2017, 9999}
DateSeparators == {Ch("-"), Ch("/"), Ch(".")}
DateRests == {<<>>, T(<<"5", "x">>)}

\* "YYYY s1 MM s2 DD" without the spaces
DateText(g) ==
  Digits4(g.y) \o <<g.s1>> \o Digits2(g.m) \o <<g.s2>> \o Digits2(g.d)

DateGens ==
  [y : DateYears, m : 0..MaxMonth, d : 0..MaxDay,
   s1 : DateSeparators, s2 : DateSeparators,
   rest : DateRests]

\* Texts that do not have the structure of a date
DateRawTexts ==
  {<<>>, T(<<"2","0","1","7">>), T(<<"2","0","1","7","-","0","3","-","2">>),
   T(<<"2","0","1","-","0","3","-","2","4">>),
   T(<<"2","0","1","7","-","3","-","2","4">>),
   T(<<"x","2","0","1","7","-","0","3","-","2","4">>),
   T(<<"2","0","1","7",":","0","3","-","2","4">>),
   T(<<"2","0","1","7","-","0","3",":","2","4">>),
   T(<<"euro","0","1","7","-","0","3","-","2","4">>)}

DateCalls ==
  {[op |-> "parse_date", form |-> "ymd", text |-> DateText(g) \o g.rest,
    gen |-> g] : g \in DateGens}
  \cup
  {[op |-> "parse_date", form |-> "raw", text |-> t, gen |-> <<>>] :
     t \in DateRawTexts}

\* Characters of two, three and four bytes: e with acute accent, the
\* Arabic-Indic digit one, the euro sign, an emoticon
WideChars == {233, 1633, 8364, 128512}

\* Dates with a month or a day out of the calendar, and dates of it
DamagedDates ==
  [y : {2017}, m : {3, 13}, d : {24, 32}, s1 : {45}, s2 : {45, 47},
   rest : {<<>>}]

\* A date text cut after k characters, with its k-th character replaced by
\* a wide character, or followed by a wide character
DamagedDateCalls ==
  {[op |-> "parse_date", form |-> "cut", text |-> Take(DateText(g), k),
    gen |-> [date |-> g, k |-> k]] : g \in DamagedDates, k \in 0..9}
  \cup
  {[op |-> "parse_date", form |-> "replaced",
    text |-> [DateText(g) EXCEPT ![k] = c] \o rest,
    gen |-> [date |-> g, k |-> k, c |-> c]] :
     g \in DamagedDates, k \in 1..10, c \in WideChars, rest \in DateRests}
  \cup
  {[op |-> "parse_date", form |-> "followed",
    text |-> DateText(g) \o <<c>>,
    gen |-> [date |-> g, c |-> c]] : g \in DamagedDates, c \in WideChars}

(***************************************************************************)
(* Inputs of parse_quantity, parse_commodity and parse_amount              *)
(***************************************************************************)
MaxIntDigits == 2
MaxFracDigits == 2
MaxGap == 1

\* Digit sequences, as sequences of digit values
QuantityDigits == {0, 1, 2}
DigitSeqs(lo, hi) ==
  UNION {[1..n -> QuantityDigits] : n \in lo..hi}

\* The characters of a sequence of digit values
DigitText(ds) == [i \in 1..Len(ds) |-> 48 + ds[i]]

\* "-"? int ("." frac)?
QuantityText(neg, int, frac) ==
  (IF neg THEN <<45>> ELSE <<>>) \o DigitText(int)
    \o (IF frac = <<>> THEN <<>> ELSE <<46>> \o DigitText(frac))

\* What may follow a quantity without extending it
QuantityRests == {<<>>, <<46>>, T(<<" ", "U">>), <<45>>, T(<<".", "x">>)}

QuantityGens ==
  [neg : BOOLEAN, int : DigitSeqs(1, MaxIntDigits),
   frac : DigitSeqs(0, MaxFracDigits), rest : QuantityRests]

QuantityRawTexts ==
  {<<>>, <<45>>, T(<<".", "5">>), T(<<"-", ".", "5">>), T(<<"x", "1">>),
   T(<<" ", "1">>), T(<<"-", "-", "1">>)}

QuantityCalls ==
  {[op |-> "parse_quantity", form |-> "quantity",
    text |-> QuantityText(g.neg, g.int, g.frac) \o g.rest, gen |-> g] :
     g \in QuantityGens}
  \cup
  {[op |-> "parse_quantity", form |-> "raw", text |-> t, gen |-> <<>>] :
     t \in QuantityRawTexts}

\* Commodity names: between quotes, any characters but the quote
QuotedNames ==
  {<<>>, T(<<"A">>), T(<<"A", " ", "1">>), T(<<"$">>), T(<<"-", "1">>),
   T(<<"euro", "\t">>)}
\* Bare names: letters, '$' and characters above the ASCII range
BareNames ==
  {T(<<"$">>), T(<<"U", "S", "D">>), T(<<"euro">>), T(<<"a", "euro", "$">>)}
\* What may follow a bare name without extending it
CommodityRests ==
  {<<>>, <<32>>, <<49>>, <<45>>, T(<<"\"", "A">>), T(<<"1", "A">>)}

CommodityGens ==
  [quoted : {TRUE}, name : QuotedNames,
   rest : CommodityRests \cup {T(<<"A">>)}]
  \cup [quoted : {FALSE}, name : BareNames, rest : CommodityRests]

CommodityText(quoted, name) ==
  IF quoted THEN <<34>> \o name \o <<34>> ELSE name

\* Inputs that start neither with a quoted string nor with a bare name
CommodityRawTexts ==
  {<<>>, <<49>>, T(<<" ", "A">>), T(<<"-", "A">>), T(<<"\"", "A">>),
   <<34>>, T(<<".", "A">>), T(<<"1", "$">>)}

CommodityCalls ==
  {[op |-> "parse_commodity", form |-> "commodity",
    text |-> CommodityText(g.quoted, g.name) \o g.rest, gen |-> g] :
     g \in CommodityGens}
  \cup
  {[op |-> "parse_commodity", form |-> "raw", text |-> t, gen |-> <<>>] :
     t \in CommodityRawTexts}

\* Whitespace of k characters
Gap(k) == [i \in 1..k |-> <<32, 9, 10, 13>>[((i - 1) % 4) + 1]]

AmountCommodities ==
  {[quoted |-> FALSE, name |-> T(<<"$">>)],
   [quoted |-> FALSE, name |-> T(<<"U", "S", "D">>)],
   [quoted |-> TRUE, name |-> T(<<"A", " ", "1">>)]}
AmountInts == {<<0>>, <<1>>, <<1, 2>>}
AmountFracs == {<<>>, <<2, 0>>}
AmountRests == {<<>>, T(<<";">>)}

\* An amount text is made of the tokens
\*   Left:   g0 lead g1 commodity g2 qneg g3 digits g4 rest
\*   Right:  g0              qneg g3 digits g2 commodity g4 rest
\* where lead and qneg are optional minus signs and g0..g4 are whitespace.
\* A gap next to an absent minus sign is empty.
AmountGens ==
  {g \in [form : {"Left", "Right"}, lead : BOOLEAN, qneg : BOOLEAN,
          commodity : AmountCommodities, int : AmountInts,
          frac : AmountFracs, g0 : 0..MaxGap, g1 : 0..MaxGap,
          g2 : 0..MaxGap, g3 : 0..MaxGap, g4 : 0..MaxGap,
          rest : AmountRests] :
     /\ g.form = "Right" => ~g.lead
     /\ ~g.lead => g.g1 = 0
     /\ ~g.qneg => g.g3 = 0}

AmountQuantityText(g) ==
  (IF g.qneg THEN <<45>> ELSE <<>>) \o Gap(g.g3)
    \o QuantityText(FALSE, g.int, g.frac)

AmountText(g) ==
  IF g.form = "Left"
    THEN Gap(g.g0) \o (IF g.lead THEN <<45>> ELSE <<>>) \o Gap(g.g1)
           \o CommodityText(g.commodity.quoted, g.commodity.name)
           \o Gap(g.g2) \o AmountQuantityText(g) \o Gap(g.g4) \o g.rest
    ELSE Gap(g.g0) \o AmountQuantityText(g) \o Gap(g.g2)
           \o CommodityText(g.commodity.quoted, g.commodity.name)
           \o Gap(g.g4) \o g.rest

\* The same tokens without whitespace between them
WithoutGaps(g) == [g EXCEPT !.g1 = 0, !.g2 = 0, !.g3 = 0]

AmountRawTexts ==
  {<<>>, <<45>>, T(<<"$">>), T(<<"1", ".", "2", "0">>), T(<<"$", "x">>),
   T(<<"-", " ", "-", "$", "1">>), T(<<"1", " ", "2">>)}

AmountCalls ==
  {[op |-> "parse_amount", form |-> "amount", text |-> AmountText(g),
    gen |-> g] : g \in AmountGens}
  \cup
  {[op |-> "parse_amount", form |-> "raw", text |-> t, gen |-> <<>>] :
     t \in AmountRawTexts}

\* Whitespace before and after a token: each of the characters alone,
\* line breaks, and all of them together
WhiteGaps ==
  {<<>>, <<32>>, <<9>>, <<13>>, <<10>>, <<13, 10>>, <<32, 10, 9, 13>>}

\* What follows the whitespace after the token
PaddedRests == {<<>>, <<59>>, <<59, 32>>}

\* Tokens with their values: $1.20, -1.20 USD, "A 1"-2, 1 "A 1"
PaddedAmounts ==
  {[text |-> <<36, 49, 46, 50, 48>>,
    val |-> Amount(Decimal(120, 2), Commodity(<<36>>, "Left"))],
   [text |-> <<45, 49, 46, 50, 48, 32, 85, 83, 68>>,
    val |-> Amount(Decimal(0 - 120, 2), Commodity(<<85, 83, 68>>, "Right"))],
   [text |-> <<34, 65, 32, 49, 34, 45, 50>>,
    val |-> Amount(Decimal(0 - 2, 0), Commodity(<<65, 32, 49>>, "Left"))],
   [text |-> <<49, 32, 34, 65, 32, 49, 34>>,
    val |-> Amount(Decimal(1, 0), Commodity(<<65, 32, 49>>, "Right"))]}

\* ABC, $, "ABC 123"
PaddedCommodities ==
  {[text |-> <<65, 66, 67>>, val |-> <<65, 66, 67>>],
   [text |-> <<36>>, val |-> <<36>>],
   [text |-> <<34, 65, 66, 67, 32, 49, 50, 51, 34>>,
    val |-> <<65, 66, 67, 32, 49, 50, 51>>]}

\* 3, -12.13
PaddedQuantities ==
  {[text |-> <<51>>, val |-> Decimal(3, 0)],
   [text |-> <<45, 49, 50, 46, 49, 51>>, val |-> Decimal(0 - 1213, 2)]}

PaddedGens(tokens) ==
  [before : WhiteGaps, token : tokens, after : WhiteGaps, rest : PaddedRests]

PaddedCalls(op, tokens) ==
  {[op |-> op, form |-> "padded",
    text |-> g.before \o g.token.text \o g.after \o g.rest, gen |-> g] :
     g \in PaddedGens(tokens)}

(***************************************************************************)
(* Amounts and balances built by a calling program                         *)
(***************************************************************************)
MaxScale == 2

AmountCoefficients == {0 - 4200, 0 - 5, 0, 5, 120, 4200}
AmountNames ==
  {T(<<"$">>), T(<<"U", "S", "D">>), T(<<"euro">>), T(<<"A", "1">>),
   T(<<"A", " ", "B">>)}

AmountValues ==
  {Amount(Decimal(n, k), Commodity(name, position)) :
     n \in AmountCoefficients, k \in 0..MaxScale, name \in AmountNames,
     position \in {"Left", "Right"}}

BalanceValues == {Balance_Zero} \cup {Balance_Amount(a) : a \in AmountValues}

(***************************************************************************)
(* Ledgers built by a calling program (the items of the display_ledger     *)
(* test of model.rs)                                                       *)
(***************************************************************************)
MaxItems == 3

\* "TEST:ABC 123"
TestAccount ==
  <<84, 69, 83, 84, 58, 65, 66, 67, 32, 49, 50, 51>>
\* "Marek Ogarek"
TestDescription ==
  <<77, 97, 114, 101, 107, 32, 79, 103, 97, 114, 101, 107>>
\* "Comment Line 1\nComment Line 2"
TestComment ==
  <<67, 111, 109, 109, 101, 110, 116, 32, 76, 105, 110, 101, 32, 49, 10, 67,
    111, 109, 109, 101, 110, 116, 32, 76, 105, 110, 101, 32, 50>>

TestDollars == Amount(Decimal(120, 2), Commodity(<<36>>, "Left"))
\* n/100 PLN
TestPLN(n) == Amount(Decimal(n, 2), Commodity(<<80, 76, 78>>, "Right"))

TestPosting(lot_price, price, comment) ==
  Posting(TestAccount, "Real", Some(PostingAmount(TestDollars, lot_price,
                                                  price)),
          <<>>, <<>>, comment)

TestTransaction(comment, postings) ==
  Transaction(comment, NaiveDate(2018, 10, 1), Some(NaiveDate(2018, 10, 14)),
              Some("Pending"), Some(<<49, 50, 51>>), TestDescription,
              postings)

TestTransaction1 ==
  TestTransaction(Some(TestComment),
                  <<TestPosting(<<>>, <<>>, Some(<<100, 100>>)),
                    TestPosting(<<>>, <<>>, <<>>)>>)

TestTransaction2 ==
  TestTransaction(<<>>,
                  <<TestPosting(Some(Price_Unit(TestPLN(500))),
                                Some(Price_Unit(TestPLN(600))), <<>>),
                    TestPosting(Some(Price_Total(TestPLN(500))),
                                Some(Price_Total(TestPLN(600))), <<>>)>>)

\* P 2017-11-12 12:00:00 mBH 5.00 PLN
TestCommodityPrice ==
  CommodityPrice(NaiveDateTime(NaiveDate(2017, 11, 12), 12, 0, 0),
                 <<109, 66, 72>>, TestPLN(500))

TestLedger ==
  Ledger(<<LedgerItem_Transaction(TestTransaction1), LedgerItem_EmptyLine,
           LedgerItem_Transaction(TestTransaction2), LedgerItem_EmptyLine,
           LedgerItem_CommodityPrice(TestCommodityPrice)>>)

\* The text the display_ledger test expects of TestLedger
TestLedgerExpected ==
  <<50, 48, 49, 56, 45, 49, 48, 45, 48, 49, 61, 50, 48, 49, 56, 45, 49, 48,
    45, 49, 52, 32, 33, 32, 40, 49, 50, 51, 41, 32, 77, 97, 114, 101, 107,
    32, 79, 103, 97, 114, 101, 107, 10, 32, 32, 59, 32, 67, 111, 109, 109,
    101, 110, 116, 32, 76, 105, 110, 101, 32, 49, 10, 32, 32, 59, 32, 67,
    111, 109, 109, 101, 110, 116, 32, 76, 105, 110, 101, 32, 50, 10, 32, 32,
    84, 69, 83, 84, 58, 65, 66, 67, 32, 49, 50, 51, 32, 32, 36, 49, 46, 50,
    48, 10, 32, 32, 59, 32, 100, 100, 10, 32, 32, 84, 69, 83, 84, 58, 65,
    66, 67, 32, 49, 50, 51, 32, 32, 36, 49, 46, 50, 48, 10, 10, 50, 48, 49,
    56, 45, 49, 48, 45, 48, 49, 61, 50, 48, 49, 56, 45, 49, 48, 45, 49, 52,
    32, 33, 32, 40, 49, 50, 51, 41, 32, 77, 97, 114, 101, 107, 32, 79, 103,
    97, 114, 101, 107, 10, 32, 32, 84, 69, 83, 84, 58, 65, 66, 67, 32, 49,
    50, 51, 32, 32, 36, 49, 46, 50, 48, 32, 123, 53, 46, 48, 48, 32, 80, 76,
    78, 125, 32, 64, 32, 54, 46, 48, 48, 32, 80, 76, 78, 10, 32, 32, 84, 69,
    83, 84, 58, 65, 66, 67, 32, 49, 50, 51, 32, 32, 36, 49, 46, 50, 48, 32,
    123, 123, 53, 46, 48, 48, 32, 80, 76, 78, 125, 125, 32, 64, 64, 32, 54,
    46, 48, 48, 32, 80, 76, 78, 10, 10, 80, 32, 50, 48, 49, 55, 45, 49, 49,
    45, 49, 50, 32, 49, 50, 58, 48, 48, 58, 48, 48, 32, 109, 66, 72, 32, 53,
    46, 48, 48, 32, 80, 76, 78, 10>>

LedgerItems ==
  {LedgerItem_EmptyLine, LedgerItem_Transaction(TestTransaction1),
   LedgerItem_Transaction(TestTransaction2),
   LedgerItem_CommodityPrice(TestCommodityPrice)}

Ledgers ==
  {TestLedger}
    \cup {Ledger(items) :
            items \in UNION {[1..n -> LedgerItems] : n \in 0..MaxItems}}

(***************************************************************************)
(* Postings and transactions built by a calling program (the values of the *)
(* display_posting and display_transaction tests of model.rs and their     *)
(* variations)                                                             *)
(***************************************************************************)
MaxPostings == 2

\* "Assets:Checking"
TestCheckingAccount ==
  <<65, 115, 115, 101, 116, 115, 58, 67, 104, 101, 99, 107, 105, 110, 103>>

\* USD42.00 and USD50.00
TestUSD(n) == Amount(Decimal(n, 2), Commodity(<<85, 83, 68>>, "Left"))

\* The posting of the display_posting test
TestCheckingPosting ==
  Posting(TestCheckingAccount, "Real",
          Some(PostingAmount(TestUSD(4200), <<>>, <<>>)),
          Some(Balance_Amount(TestUSD(5000))), Some("Cleared"),
          Some(<<97, 115, 100, 102>>))

\* The text the display_posting test expects of it
TestCheckingPostingExpected ==
  <<42, 32, 65, 115, 115, 101, 116, 115, 58, 67, 104, 101, 99, 107, 105,
    110, 103, 32, 32, 85, 83, 68, 52, 50, 46, 48, 48, 32, 61, 32, 85, 83,
    68, 53, 48, 46, 48, 48, 10, 32, 32, 59, 32, 97, 115, 100, 102>>

PostingPrices ==
  {<<>>, Some(Price_Unit(TestPLN(500))), Some(Price_Total(TestPLN(600)))}

PostingAmounts ==
  {<<>>}
    \cup {Some(PostingAmount(a, lot_price, price)) :
            a \in {TestUSD(4200), TestPLN(0 - 120)},
            lot_price \in PostingPrices, price \in PostingPrices}

PostingBalances ==
  {<<>>, Some(Balance_Zero), Some(Balance_Amount(TestUSD(5000)))}

Statuses == {<<>>, Some("Pending"), Some("Cleared")}

PostingValues ==
  {Posting(account, reality, amount, balance, status, comment) :
     account \in {TestCheckingAccount, TestAccount},
     reality \in {"Real", "BalancedVirtual", "UnbalancedVirtual"},
     amount \in PostingAmounts, balance \in PostingBalances,
     status \in Statuses,
     comment \in {<<>>, Some(<<97, 115, 100, 102>>)}}

\* The text the display_transaction test expects of TestTransaction1
TestTransactionExpected ==
  <<50, 48, 49, 56, 45, 49, 48, 45, 48, 49, 61, 50, 48, 49, 56, 45, 49, 48,
    45, 49, 52, 32, 33, 32, 40, 49, 50, 51, 41, 32, 77, 97, 114, 101, 107,
    32, 79, 103, 97, 114, 101, 107, 10, 32, 32, 59, 32, 67, 111, 109, 109,
    101, 110, 116, 32, 76, 105, 110, 101, 32, 49, 10, 32, 32, 59, 32, 67,
    111, 109, 109, 101, 110, 116, 32, 76, 105, 110, 101, 32, 50, 10, 32, 32,
    84, 69, 83, 84, 58, 65, 66, 67, 32, 49, 50, 51, 32, 32, 36, 49, 46, 50,
    48, 10, 32, 32, 59, 32, 100, 100, 10, 32, 32, 84, 69, 83, 84, 58, 65,
    66, 67, 32, 49, 50, 51, 32, 32, 36, 49, 46, 50, 48>>

\* The postings a transaction is made of
TransactionPostings ==
  {TestPosting(<<>>, <<>>, Some(<<100, 100>>)), TestPosting(<<>>, <<>>, <<>>),
   TestCheckingPosting}

TransactionValues ==
  {Transaction(comment, NaiveDate(2018, 10, 1), effective_date, status, code,
               TestDescription, postings) :
     comment \in {<<>>, Some(TestComment), Some(<<100, 100>>)},
     effective_date \in {<<>>, Some(NaiveDate(2018, 10, 14))},
     status \in Statuses,
     code \in {<<>>, Some(<<49, 50, 51>>)},
     postings \in UNION {[1..n -> TransactionPostings] : n \in 0..MaxPostings}}

(***************************************************************************)
(* The calls: a call is drawn, then the called function runs to its result *)
(***************************************************************************)
Pending == [ok |-> FALSE, kind |-> "Pending", at |-> <<>>]

Init ==
  /\ \/ call \in DateCalls
     \/ call \in DamagedDateCalls
     \/ call \in QuantityCalls
     \/ call \in CommodityCalls
     \/ call \in AmountCalls
     \/ call \in PaddedCalls("parse_amount", PaddedAmounts)
     \/ call \in PaddedCalls("parse_commodity", PaddedCommodities)
     \/ call \in PaddedCalls("parse_quantity", PaddedQuantities)
     \/ call \in {[op |-> o, amount |-> a] :
                     o \in {"display_amount", "render_parse_amount"},
                     a \in AmountValues}
     \/ call \in {[op |-> "display_balance", balance |-> b] :
                     b \in BalanceValues}
     \/ call \in {[op |-> "display_ledger", ledger |-> l] : l \in Ledgers}
     \/ call \in {[op |-> "display_transaction", transaction |-> t] :
                     t \in TransactionValues}
     \/ call \in {[op |-> "display_posting", posting |-> p] :
                     p \in PostingValues}
  /\ ret = Pending
  /\ pc = "call"

ParseDate ==
  /\ pc = "call"
  /\ call.op = "parse_date"
  /\ ret' = parse_date(call.text)
  /\ pc' = IF is_panic(ret') THEN "panic" ELSE "return"
  /\ UNCHANGED call

ParseQuantity ==
  /\ pc = "call"
  /\ call.op = "parse_quantity"
  /\ ret' = parse_quantity(call.text)
  /\ pc' = "return"
  /\ UNCHANGED call

ParseCommodity ==
  /\ pc = "call"
  /\ call.op = "parse_commodity"
  /\ ret' = parse_commodity(call.text)
  /\ pc' = "return"
  /\ UNCHANGED call

ParseAmount ==
  /\ pc = "call"
  /\ call.op = "parse_amount"
  /\ ret' = parse_amount(call.text)
  /\ pc' = "return"
  /\ UNCHANGED call

\* format!("{}", amount)
DisplayAmount ==
  /\ pc = "call"
  /\ call.op = "display_amount"
  /\ ret' = Amount_fmt(call.amount)
  /\ pc' = "return"
  /\ UNCHANGED call

\* format!("{}", balance)
DisplayBalance ==
  /\ pc = "call"
  /\ call.op = "display_balance"
  /\ ret' = Balance_fmt(call.balance)
  /\ pc' = "return"
  /\ UNCHANGED call

\* parse_amount(format!("{}", amount))
RenderParseAmount ==
  /\ pc = "call"
  /\ call.op = "render_parse_amount"
  /\ ret' = parse_amount(Amount_fmt(call.amount))
  /\ pc' = "return"
  /\ UNCHANGED call

\* format!("{}", ledger)
DisplayLedger ==
  /\ pc = "call"
  /\ call.op = "display_ledger"
  /\ ret' = Ledger_fmt(call.ledger)
  /\ pc' = "return"
  /\ UNCHANGED call

\* format!("{}", transaction)
DisplayTransaction ==
  /\ pc = "call"
  /\ call.op = "display_transaction"
  /\ ret' = Transaction_fmt(call.transaction)
  /\ pc' = "return"
  /\ UNCHANGED call

\* format!("{}", posting)
DisplayPosting ==
  /\ pc = "call"
  /\ call.op = "display_posting"
  /\ ret' = Posting_fmt(call.posting)
  /\ pc' = "return"
  /\ UNCHANGED call

Next ==
  \/ ParseDate
  \/ ParseQuantity
  \/ ParseCommodity
  \/ ParseAmount
  \/ DisplayAmount
  \/ DisplayBalance
  \/ RenderParseAmount
  \/ DisplayLedger
  \/ DisplayTransaction
  \/ DisplayPosting

Spec == Init /\ [][Next]_vars

Returned(op) == pc = "return" /\ call.op = op

(***************************************************************************)
(* Properties of parse_date                                                *)
(***************************************************************************)
\* The calendar, as a table of month lengths
MonthLengths(y) ==
  <<31, IF (y % 4 = 0 /\ y % 100 # 0) \/ y % 400 = 0 THEN 29 ELSE 28,
    31, 30, 31, 30, 31, 31, 30, 31, 30, 31>>

IsCalendarDate(y, m, d) ==
  m \in 1..12 /\ d >= 1 /\ d <= MonthLengths(y)[m]

DateStructured ==
  /\ Returned("parse_date")
  /\ call.form = "ymd"
  /\ call.gen.s1 \in DateSeparators
  /\ call.gen.s2 \in DateSeparators

\* C1: for every valid calendar date written YYYY s1 MM s2 DD, with s1 and
\* s2 chosen independently among '-', '/' and '.', parse_date succeeds with
\* the date (y, m, d), the same for all separator choices, and the remaining
\* input is everything after the 10 date characters.
C1_ValidDateAnySeparators ==
  (DateStructured /\ IsCalendarDate(call.gen.y, call.gen.m, call.gen.d))
    => ret = Ok(call.gen.rest,
                NaiveDate(call.gen.y, call.gen.m, call.gen.d))

C1_Witness ==
  /\ Returned("parse_date")
  /\ call.form = "ymd"
  /\ call.gen = [y |-> 2016, m |-> 2, d |-> 29, s1 |-> Ch("/"),
                 s2 |-> Ch("."), rest |-> T(<<"5", "x">>)]
  /\ ret.ok
  /\ ret.rest = T(<<"5", "x">>)

\* C2: an input whose first 10 characters have the structure of a date but
\* denote no calendar date fails with NonExistingDate, and the span of the
\* error is exactly those 10 characters, whatever follows them.
C2_NonExistingDate ==
  (DateStructured /\ ~IsCalendarDate(call.gen.y, call.gen.m, call.gen.d))
    => ret = Error("Custom(NonExistingDate)", DateText(call.gen))

C2_Witness ==
  /\ Returned("parse_date")
  /\ call.form = "ymd"
  /\ call.gen = [y |-> 1900, m |-> 2, d |-> 29, s1 |-> Ch("-"),
                 s2 |-> Ch("/"), rest |-> T(<<"5", "x">>)]
  /\ ret.kind = "Custom(NonExistingDate)"
  /\ Len(ret.at) = 10

(***************************************************************************)
(* Properties of parse_quantity                                            *)
(***************************************************************************)
RECURSIVE Pow10(_)
Pow10(n) == IF n = 0 THEN 1 ELSE 10 * Pow10(n - 1)

\* The number written by a sequence of digit values
RECURSIVE DigitsNumber(_)
DigitsNumber(ds) ==
  IF ds = <<>> THEN 0
  ELSE Head(ds) * Pow10(Len(ds) - 1) + DigitsNumber(Tail(ds))

\* C3: parse_quantity accepts the longest prefix "-"? digits ("." digits)?;
\* the result is the decimal whose unscaled integer is the signed digit
\* sequence and whose scale is the number of digits written after the '.'
\* (0 without a fraction), unrounded and unnormalised, and the remaining
\* input is everything after that prefix.
C3_QuantityExactScale ==
  (Returned("parse_quantity") /\ call.form = "quantity")
    => ret = Ok(call.gen.rest,
                Decimal((IF call.gen.neg THEN 0 - 1 ELSE 1)
                          * DigitsNumber(call.gen.int \o call.gen.frac),
                        Len(call.gen.frac)))

\* "-0.10." : scale 2 is kept, the second '.' is left
C3_Witness ==
  /\ Returned("parse_quantity")
  /\ call.form = "quantity"
  /\ call.gen = [neg |-> TRUE, int |-> <<0>>, frac |-> <<1, 0>>,
                 rest |-> <<46>>]
  /\ ret.ok
  /\ ret.val = Decimal(0 - 10, 2)
  /\ ret.rest = <<46>>

(***************************************************************************)
(* Properties of parse_commodity                                           *)
(***************************************************************************)
CommodityForm == Returned("parse_commodity") /\ call.form = "commodity"

AmountForm(form) ==
  Returned("parse_amount") /\ call.form = "amount" /\ call.gen.form = form

\* The magnitude written by the digits of the quantity of an amount text
Magnitude(g) == DigitsNumber(g.int \o g.frac)

\* C5 as stated: a left-positioned amount text yields a Left commodity and
\* the negated magnitude whenever a minus sign stands before the commodity
\* or after it, the magnitude as written when there is none.
C5_LeftSignAsStated ==
  (AmountForm("Left") /\ call.gen.g3 = 0)
    => /\ ret.ok
       /\ ret.val =
            Amount(Decimal((IF call.gen.lead \/ call.gen.qneg
                              THEN 0 - 1 ELSE 1) * Magnitude(call.gen),
                           Len(call.gen.frac)),
                   Commodity(call.gen.commodity.name, "Left"))

\* C5 amended: the quantity is the negated magnitude when a minus sign
\* stands in exactly one of the two places; with a minus sign in both, the
\* two negations cancel and the quantity is the magnitude as written.
C5_LeftSignExactlyOne ==
  (AmountForm("Left") /\ call.gen.g3 = 0)
    => /\ ret.ok
       /\ ret.val =
            Amount(Decimal((IF call.gen.lead # call.gen.qneg
                              THEN 0 - 1 ELSE 1) * Magnitude(call.gen),
                           Len(call.gen.frac)),
                   Commodity(call.gen.commodity.name, "Left"))

\* "- $ 1.20;" : the minus sign before the commodity negates
C5_Witness ==
  /\ AmountForm("Left")
  /\ call.gen.lead /\ ~call.gen.qneg
  /\ call.gen.g1 = 1 /\ call.gen.g2 = 1
  /\ call.gen.int = <<1>> /\ call.gen.frac = <<2, 0>>
  /\ ret.ok
  /\ ret.val.quantity = Decimal(0 - 120, 2)
  /\ ret.val.commodity.position = "Left"

\* C6: a right-positioned amount text yields a Right commodity and the
\* quantity exactly as written, sign included, also when the text starts
\* with '-': the first alternative fails after the '-' and the second is
\* tried from the start of the input.
C6_RightQuantityLiteral ==
  (AmountForm("Right") /\ call.gen.g3 = 0)
    => /\ ret.ok
       /\ ret.val =
            Amount(Decimal((IF call.gen.qneg THEN 0 - 1 ELSE 1)
                             * Magnitude(call.gen),
                           Len(call.gen.frac)),
                   Commodity(call.gen.commodity.name, "Right"))

\* "-1.20 USD"
C6_Witness ==
  /\ AmountForm("Right")
  /\ call.gen.qneg /\ call.gen.g0 = 0 /\ call.gen.g2 = 1
  /\ call.gen.int = <<1>> /\ call.gen.frac = <<2, 0>>
  /\ call.gen.commodity.name = T(<<"U", "S", "D">>)
  /\ ~amount_left(call.text).ok
  /\ ret.ok
  /\ ret.val = Amount(Decimal(0 - 120, 2),
                      Commodity(T(<<"U", "S", "D">>), "Right"))

\* C7 as stated: whitespace inserted between any two adjacent tokens of an
\* accepted amount text (leading minus sign, commodity, minus sign of the
\* quantity, digits of the quantity) gives an accepted text with the same
\* Amount.
C7_WhitespaceAsStated ==
  (Returned("parse_amount") /\ call.form = "amount"
     /\ parse_amount(AmountText(WithoutGaps(call.gen))).ok)
    => /\ ret.ok
       /\ ret.val = parse_amount(AmountText(WithoutGaps(call.gen))).val

\* C7 amended: the same for whitespace inserted between the leading minus
\* sign, the commodity and the quantity, the quantity with its own minus
\* sign being one token: whitespace between the minus sign of the quantity
\* and its digits is not accepted.
C7_WhitespaceBetweenTokens ==
  (Returned("parse_amount") /\ call.form = "amount" /\ call.gen.g3 = 0
     /\ parse_amount(AmountText(WithoutGaps(call.gen))).ok)
    => /\ ret.ok
       /\ ret.val = parse_amount(AmountText(WithoutGaps(call.gen))).val

\* "- $ -1.20" is accepted as "-$-1.20" is
C7_Witness ==
  /\ AmountForm("Left")
  /\ call.gen.lead /\ call.gen.qneg
  /\ call.gen.g1 = 1 /\ call.gen.g2 = 1 /\ call.gen.g3 = 0
  /\ parse_amount(AmountText(WithoutGaps(call.gen))).ok
  /\ ret.ok
  /\ ret.val.commodity.name = T(<<"$">>)

(***************************************************************************)
(* Properties of rendering                                                 *)
(***************************************************************************)
\* C8: parsing the default rendering of any Amount built by a program
\* (any quantity, any non-empty commodity name, Left or Right) succeeds
\* with no remaining input and returns the same quantity (value and scale),
\* the same commodity name and the same position.
C8_AmountRoundTrip ==
  Returned("render_parse_amount") => ret = Ok(<<>>, call.amount)

\* The round trip for the names a bare commodity token can hold
C8_AmountRoundTripBareNames ==
  (Returned("render_parse_amount")
     /\ \A i \in 1..Len(call.amount.commodity.name) :
          is_commodity_char(call.amount.commodity.name[i]))
    => ret = Ok(<<>>, call.amount)

\* The text of a quantity: what parse_quantity reads back, whole, as the
\* same coefficient and the same scale
IsTextOf(q, quantity) == parse_quantity(q) = Ok(<<>>, quantity)

\* C9: a Left amount renders as the commodity name immediately followed by
\* the quantity, a Right amount as the quantity, one space and the name,
\* the quantity with exactly as many fraction digits as its scale;
\* Balance::Amount renders as its amount, Balance::Zero as "0".
C9_AmountBalanceRendering ==
  /\ (Returned("display_amount") /\ call.amount.commodity.position = "Left")
       => /\ Len(ret) > Len(call.amount.commodity.name)
          /\ Take(ret, Len(call.amount.commodity.name))
               = call.amount.commodity.name
          /\ IsTextOf(Drop(ret, Len(call.amount.commodity.name)),
                      call.amount.quantity)
  /\ (Returned("display_amount") /\ call.amount.commodity.position = "Right")
       => /\ Len(ret) > Len(call.amount.commodity.name) + 1
          /\ Drop(ret, Len(ret) - Len(call.amount.commodity.name) - 1)
               = <<32>> \o call.amount.commodity.name
          /\ IsTextOf(Take(ret, Len(ret)
                                  - Len(call.amount.commodity.name) - 1),
                      call.amount.quantity)
  /\ (Returned("display_balance") /\ call.balance.tag = "Amount")
       => ret = Amount_fmt(call.balance.amount)
  /\ (Returned("display_balance") /\ call.balance.tag = "Zero")
       => ret = <<48>>

\* Amount 42.00 USD Left renders "USD42.00"
C9_Witness ==
  /\ Returned("display_amount")
  /\ call.amount = Amount(Decimal(4200, 2),
                          Commodity(T(<<"U", "S", "D">>), "Left"))
  /\ ret = T(<<"U", "S", "D", "4", "2", ".", "0", "0">>)

\* The rendering of an item of a ledger on its own
ItemText(item) ==
  CASE item.tag = "EmptyLine" -> <<>>
    [] item.tag = "Transaction" -> Transaction_fmt(item.transaction)
    [] item.tag = "CommodityPrice" -> CommodityPrice_fmt(item.commodity_price)

\* Where the k-th item starts in the rendering of the items: after the
\* renderings of the items before it and one line end for each of them
RECURSIVE ItemOffset(_, _)
ItemOffset(items, k) ==
  IF k = 1 THEN 0
  ELSE ItemOffset(items, k - 1) + Len(ItemText(items[k - 1])) + 1

\* The line ends of a text that end an empty line
BlankLines(text) ==
  {i \in 1..Len(text) : text[i] = 10 /\ (i = 1 \/ text[i - 1] = 10)}

\* C10: a Ledger renders as its items in sequence order, each rendering
\* followed by exactly one newline, an EmptyLine being an empty line; no
\* blank line is invented or suppressed: between two consecutive
\* non-EmptyLine items there are as many blank lines as EmptyLine items,
\* and the output ends with a single newline after the last item.
C10_LedgerItemsAndBlankLines ==
  Returned("display_ledger") =>
    LET items == call.ledger.items
        n == Len(items)
    IN /\ Len(ret) = IF n = 0 THEN 0
                     ELSE ItemOffset(items, n) + Len(ItemText(items[n])) + 1
       /\ \A k \in 1..n :
            /\ SubSeq(ret, ItemOffset(items, k) + 1,
                      ItemOffset(items, k) + Len(ItemText(items[k])))
                 = ItemText(items[k])
            /\ ret[ItemOffset(items, k) + Len(ItemText(items[k])) + 1] = 10
       /\ Cardinality(BlankLines(ret))
            = Cardinality({k \in 1..n : items[k].tag = "EmptyLine"})
       /\ \A i, j \in 1..n :
            (/\ i < j
             /\ items[i].tag # "EmptyLine" /\ items[j].tag # "EmptyLine"
             /\ \A k \in (i + 1)..(j - 1) : items[k].tag = "EmptyLine")
              => Cardinality({b \in BlankLines(ret) :
                                /\ b > ItemOffset(items, i)
                                /\ b <= ItemOffset(items, j)})
                   = j - i - 1
       /\ (n > 0 /\ items[n].tag # "EmptyLine")
            => (ret[Len(ret)] = 10 /\ ret[Len(ret) - 1] # 10)

\* The ledger of the display_ledger test renders as the test expects
C10_Witness ==
  /\ Returned("display_ledger")
  /\ call.ledger = TestLedger
  /\ ret = TestLedgerExpected
  /\ Cardinality(BlankLines(ret)) = 2

(***************************************************************************)
(* Properties of the rendering of transactions and postings                *)
(***************************************************************************)
\* The lines of a text: what stands between its line ends
Lines(text) ==
  LET ends == {i \in 1..Len(text) : text[i] = 10}
      end(k) == IF k = Cardinality(ends) + 1 THEN Len(text) + 1
                ELSE CHOOSE i \in ends :
                       Cardinality({j \in ends : j < i}) = k - 1
  IN [k \in 1..(Cardinality(ends) + 1) |->
        SubSeq(text, IF k = 1 THEN 1 ELSE end(k - 1) + 1, end(k) - 1)]

\* The marker of a status
StatusMarker(status) == IF status = "Pending" THEN <<33>> ELSE <<42>>

\* The text of an optional field: nothing when absent, else its text
\* between the given texts
Optional(field, before, after) ==
  IF field = <<>> THEN <<>> ELSE before \o field[1] \o after

\* <date>[=<effective_date>][ <status marker>][ (<code>)] <description>
HeaderLine(t) ==
  NaiveDate_fmt(t.date)
    \o Optional([i \in 1..Len(t.effective_date) |->
                   NaiveDate_fmt(t.effective_date[i])], <<61>>, <<>>)
    \o Optional([i \in 1..Len(t.status) |-> StatusMarker(t.status[i])],
                <<32>>, <<>>)
    \o Optional(t.code, <<32, 40>>, <<41>>)
    \o <<32>> \o t.description

\* The lines of the comment of a transaction, each as "  ; <line>"
CommentLines(t) ==
  LET lines == IF t.comment = <<>> THEN <<>> ELSE Lines(t.comment[1])
  IN [i \in 1..Len(lines) |-> <<32, 32, 59, 32>> \o lines[i]]

\* The lines of the postings: each posting's own line indented by two
\* spaces, its comment as "  ; <comment>" on the next line
RECURSIVE PostingLines(_)
PostingLines(postings) ==
  IF postings = <<>> THEN <<>>
  ELSE <<<<32, 32>> \o Lines(Posting_fmt(Head(postings)))[1]>>
         \o (IF Head(postings).comment = <<>> THEN <<>>
             ELSE <<<<32, 32, 59, 32>> \o Head(postings).comment[1]>>)
         \o PostingLines(Tail(postings))

\* C11: a Transaction renders as the header <date>[=<effective_date>]
\* [ <status marker>][ (<code>)] <description>, an absent optional field
\* contributing neither text nor a space; then one line "  ; <line>" per
\* line of the transaction comment, in order and before any posting; then
\* each posting on its own line indented by two spaces, in list order, a
\* posting's comment as "  ; <comment>" on the line right after it; the
\* result has no trailing newline.
C11_TransactionRendering ==
  Returned("display_transaction") =>
    LET t == call.transaction
    IN /\ Lines(ret)
            = <<HeaderLine(t)>> \o CommentLines(t) \o PostingLines(t.postings)
       /\ ret[Len(ret)] # 10

\* The transaction of the display_transaction test renders as the test
\* expects: all optional header fields, a two-line comment, two postings
C11_Witness ==
  /\ Returned("display_transaction")
  /\ call.transaction = TestTransaction1
  /\ ret = TestTransactionExpected
  /\ Len(Lines(ret)) = 6

\* The account in the brackets of its reality
AccountText(p) ==
  CASE p.reality = "Real" -> p.account
    [] p.reality = "BalancedVirtual" -> <<91>> \o p.account \o <<93>>
    [] p.reality = "UnbalancedVirtual" -> <<40>> \o p.account \o <<41>>

\* A price between the texts of its kind
PriceText(price, unit_before, unit_after, total_before, total_after) ==
  IF price.tag = "Unit"
    THEN unit_before \o Amount_fmt(price.amount) \o unit_after
    ELSE total_before \o Amount_fmt(price.amount) \o total_after

\* <amount>[ {<lot price>}| {{<lot price>}}][ @ <price>| @@ <price>]
PostingAmountText(pa) ==
  Amount_fmt(pa.amount)
    \o (IF pa.lot_price = <<>> THEN <<>>
        ELSE PriceText(pa.lot_price[1], <<32, 123>>, <<125>>,
                       <<32, 123, 123>>, <<125, 125>>))
    \o (IF pa.price = <<>> THEN <<>>
        ELSE PriceText(pa.price[1], <<32, 64, 32>>, <<>>,
                       <<32, 64, 64, 32>>, <<>>))

\* C12: a Posting renders as the status marker and one space when a status
\* is present, the account, a two-space separator, the amount when present
\* with its lot price as " {<amount>}" (Unit) or " {{<amount>}}" (Total)
\* and its posted price as " @ <amount>" (Unit) or " @@ <amount>" (Total),
\* then " = " and the balance when a balance is present, and then, only
\* when a comment is present, a new line indented by two spaces holding
\* "; <comment>".
C12_PostingRendering ==
  Returned("display_posting") =>
    LET p == call.posting
        lines == Lines(ret)
    IN /\ Len(lines) = IF p.comment = <<>> THEN 1 ELSE 2
       /\ lines[1]
            = Optional([i \in 1..Len(p.status) |-> StatusMarker(p.status[i])],
                       <<>>, <<32>>)
                \o AccountText(p) \o <<32, 32>>
                \o (IF p.amount = <<>> THEN <<>>
                    ELSE PostingAmountText(p.amount[1]))
                \o Optional([i \in 1..Len(p.balance) |->
                               Balance_fmt(p.balance[i])], <<32, 61, 32>>, <<>>)
       /\ p.comment # <<>> => lines[2] = <<32, 32, 59, 32>> \o p.comment[1]

\* The posting of the display_posting test renders as the test expects
C12_Witness ==
  /\ Returned("display_posting")
  /\ call.posting = TestCheckingPosting
  /\ ret = TestCheckingPostingExpected

(***************************************************************************)
(* parse_date and the bytes of its input                                   *)
(***************************************************************************)
\* 4 digits, separator, 2 digits, separator, 2 digits
DatePattern(text) ==
  /\ Len(text) = 10
  /\ \A i \in {1, 2, 3, 4, 6, 7, 9, 10} : text[i] \in 48..57
  /\ \A i \in {5, 8} : text[i] \in {45, 46, 47}

\* The first 10 characters exist and are ASCII characters
FirstTenAscii(text) ==
  /\ Len(text) >= 10
  /\ \A i \in 1..10 : text[i] < 128

\* C13: parse_date never aborts. The NonExistingDate error, which slices
\* the first 10 bytes of the input, is reached only after the structural
\* parser has matched exactly 10 single-byte ASCII characters (4 digits,
\* separator, 2 digits, separator, 2 digits), so the slice lies within the
\* input and on character boundaries; the month and the day converted to
\* unsigned values are in 0..99; an input shorter than 10 characters or
\* with a non-ASCII character in its first 10 positions fails with a
\* syntax error.
C13_ParseDateNeverAborts ==
  /\ pc # "panic"
  /\ Returned("parse_date") =>
       LET text == call.text
           internal == parse_date_internal(text)
       IN /\ (~ret.ok /\ ret.kind = "Custom(NonExistingDate)") =>
               /\ FirstTenAscii(text)
               /\ DatePattern(Take(text, 10))
               /\ internal.ok
               /\ Len(text) - Len(internal.rest) = 10
               /\ str_len(Take(text, 10)) = 10
               /\ ret.at = Take(text, 10)
          /\ internal.ok =>
               \A i \in {2, 3} :
                 /\ as_u32(internal.val[i]).hi = 0
                 /\ as_u32(internal.val[i]).lo \in 0..99
          /\ ~FirstTenAscii(text) =>
               /\ ~ret.ok
               /\ ret.kind \in {"TakeWhileMN", "Alt"}

\* A date out of the calendar followed by a character of several bytes:
\* the slice ends where that character starts
C13_Witness ==
  /\ Returned("parse_date")
  /\ call.form = "followed"
  /\ call.gen.date.m = 13
  /\ call.gen.c = 8364
  /\ str_len(call.text) = 13
  /\ ~ret.ok
  /\ ret.kind = "Custom(NonExistingDate)"
  /\ ret.at = DateText(call.gen.date)

(***************************************************************************)
(* Whitespace around an amount                                             *)
(***************************************************************************)
\* A text that starts with a whitespace character
StartsWithWhite(text) == text # <<>> /\ is_white_char(text[1])

\* C14: after every successful parse_amount the remaining input does not
\* start with a whitespace character: parse_amount consumes all whitespace
\* before the amount and all whitespace after it, line breaks included
\* (space, tab, carriage return, newline), whereas parse_commodity and
\* parse_quantity used alone consume no whitespace: they leave the
\* whitespace that follows the token in the remaining input (and do not
\* accept whitespace before it).
C14_AmountConsumesWhitespace ==
  /\ (Returned("parse_amount") /\ ret.ok) => ~StartsWithWhite(ret.rest)
  /\ (Returned("parse_amount") /\ call.form = "padded") =>
       ret = Ok(call.gen.rest, call.gen.token.val)
  /\ (/\ pc = "return"
      /\ call.op \in {"parse_commodity", "parse_quantity"}
      /\ call.form = "padded") =>
       IF call.gen.before = <<>>
         THEN ret = Ok(call.gen.after \o call.gen.rest, call.gen.token.val)
         ELSE ~ret.ok

\* An amount between whitespace made of all four characters: all of it is
\* consumed
C14_Witness ==
  /\ Returned("parse_amount")
  /\ call.form = "padded"
  /\ call.gen.before = <<32, 10, 9, 13>>
  /\ call.gen.after = <<32, 10, 9, 13>>
  /\ call.gen.rest = <<59>>
  /\ ret.ok
  /\ ret.rest = <<59>>

====
